---- MODULE Spec2Model ----
(***************************************************************************)
(* Feature toggle cascade (scripts/feature-toggle-cascade.sql).            *)
(*                                                                         *)
(* The database is modelled at the granularity PostgreSQL gives the code:  *)
(* an UPDATE of a company_features row opens a transaction, the AFTER      *)
(* UPDATE row trigger runs handle_feature_toggle_cascade inside it, and    *)
(* each SQL statement of the function is one atomic step that reads the    *)
(* rows committed at that moment (READ COMMITTED) plus the transaction's   *)
(* own writes.  The transaction's writes stay private until it commits.    *)
(* Writes of the subsystems that own the target records are single         *)
(* statement transactions.                                                 *)
(***************************************************************************)
EXTENDS Integers, FiniteSets, Sequences, TLC

(* ------------------------------ bounds --------------------------------- *)
NumTenants == 2
MaxItems == 3
MaxUserWrites == 2
MaxClock == 2
MaxTextLen == 2

Tenants == 1..NumTenants
ItemIds == 1..MaxItems

(* --------------------------- data model -------------------------------- *)
\* company_features.is_active is a three-valued SQL boolean; "absent" marks
\* a (company, feature) pair without a row.
SqlTrue == "true"
SqlFalse == "false"
SqlNull == "null"
Absent == "absent"
FlagValues == {SqlTrue, SqlFalse, SqlNull}

\* system_features: feature id -> key.  Ids 1..4 carry the four keys the
\* function knows, id 5 a key without a cascade, id 6 has no row at all.
FeatureIds == 1..6
NoKey == "?"
system_features == <<"coupons", "promotions", "drivers", "tables", "reports">>

TableNames == {"coupons", "promotions", "delivery_drivers", "tables"}

\* company_id of the target record with a given id (fixed at creation).
OwnerOf(id) == ((id - 1) % NumTenants) + 1

\* The data the tables start with: the first record of every company is
\* active, its later ones are not.
NewRecord(tbl, id) ==
    IF tbl = "delivery_drivers"
    THEN [exists |-> TRUE, company_id |-> OwnerOf(id),
          is_active |-> (id <= NumTenants), is_available |-> (id <= NumTenants)]
    ELSE [exists |-> TRUE, company_id |-> OwnerOf(id),
          is_active |-> (id <= NumTenants)]

VARIABLES
    cf,        \* company_features: (company, feature id) -> committed is_active
    recs,      \* committed target tables: table name -> id -> row
    snap,      \* committed rows of feature_deactivated_items
    tx,        \* the open transaction on each company_features row
    clock,     \* now(): ordinal of the last deactivating transaction
    nwrites,   \* writes made so far by the owners of the target records
    hist,      \* what the last deactivate/restore cycle of a row saw
    handler,   \* get-store-setup-status: the locals of the request in progress
    response   \* get-store-setup-status: the response sent, if any

vars == <<cf, recs, snap, tx, clock, nwrites, hist, handler, response>>

\* get-store-setup-status before a request arrives.
JsNull == "<null>"
IdleHandler ==
    [pc |-> "idle", slug |-> <<>>, missing |-> <<>>, pix_key |-> JsNull,
     payment |-> [error |-> FALSE, data |-> {}]]
NoResponse == [kind |-> "none"]

IdleTx ==
    [pc |-> "idle", old |-> SqlNull, new |-> SqlNull, branch |-> "none",
     key |-> NoKey, tbl |-> "", now |-> 0, found |-> {},
     ins |-> {}, del |-> {}, upd |-> <<>>]

NoHist ==
    [phase |-> "none", pre |-> {}, preAvail |-> {}, preSnapEmpty |-> TRUE,
     clean |-> TRUE, forced |-> {}, userOff |-> {}]

\* Forget the cycle in progress.
ResetCycle(h) == NoHist

(* ------------------- handle_feature_toggle_cascade --------------------- *)
\* SELECT key INTO v_feature_key FROM system_features WHERE id = ...
KeyOf(fid) == IF fid \in DOMAIN system_features THEN system_features[fid] ELSE NoKey

\* A CASE whose ELSE arm falls into the coupons cascade.
RuleTableDefault(key) ==
    CASE key = "promotions" -> "promotions"
      [] key = "drivers" -> "delivery_drivers"
      [] key = "tables" -> "tables"
      [] OTHER -> "coupons"

\* The CASE v_feature_key arms: the table each key cascades to ("" for the
\* ELSE arm).
RuleTable(key) ==
    CASE key = "coupons" -> "coupons"
      [] key = "promotions" -> "promotions"
      [] key = "drivers" -> "delivery_drivers"
      [] key = "tables" -> "tables"
      [] OTHER -> ""

HasRule(key) == RuleTable(key) # ""

\* WHEN (OLD.is_active IS DISTINCT FROM NEW.is_active)
TriggerWhen(old, new) == old # new

\* Branching on NEW.is_active alone.
BranchOnNew(op, old, new) ==
    IF op = "UPDATE" /\ new = SqlFalse THEN "deactivate"
    ELSE IF op = "UPDATE" /\ new = SqlTrue THEN "reactivate"
    ELSE "none"

\* The IF / ELSIF of the function body; a comparison with NULL is not true.
Branch(op, old, new) ==
    IF op = "UPDATE" /\ old = SqlTrue /\ new = SqlFalse THEN "deactivate"
    ELSE IF op = "UPDATE" /\ old = SqlFalse /\ new = SqlTrue THEN "reactivate"
    ELSE "none"

\* The SELECT without its company_id condition.
SelectActiveAnyCompany(R, t, tbl) ==
    {id \in ItemIds : R[tbl][id].exists /\ R[tbl][id].is_active}

\* SELECT ... id FROM <tbl> WHERE company_id = v_company_id AND is_active = true
SelectActive(R, t, tbl) ==
    {id \in ItemIds : R[tbl][id].exists /\ R[tbl][id].company_id = t
                      /\ R[tbl][id].is_active}

SnapKey(e) == <<e.company_id, e.feature_key, e.table_name, e.item_id>>

\* A snapshot row that stores the feature key as table name.
SnapRowKeyAsTable(t, key, tbl, id, now) ==
    [company_id |-> t, feature_key |-> key, table_name |-> key,
     item_id |-> id, deactivated_at |-> now]

\* SELECT v_company_id, v_feature_key, '<tbl>', id, now(): one row to insert.
SnapRow(t, key, tbl, id, now) ==
    [company_id |-> t, feature_key |-> key, table_name |-> tbl,
     item_id |-> id, deactivated_at |-> now]

\* The INSERT without its ON CONFLICT clause (and without the constraint).
InsertAll(visible, rows) == rows

\* ON CONFLICT (company_id, feature_key, table_name, item_id) DO NOTHING:
\* the rows of the INSERT that are really inserted.
InsertOnConflictDoNothing(visible, rows) ==
    {r \in rows : \A e \in visible : SnapKey(e) # SnapKey(r)}

\* A deactivation that removes the row instead of clearing its flags.
DeactivateRowDeleting(tbl, r) == [r EXCEPT !.exists = FALSE, !.is_active = FALSE]

\* UPDATE <tbl> SET is_active = false [, is_available = false]
DeactivateRow(tbl, r) ==
    IF tbl = "delivery_drivers"
    THEN [r EXCEPT !.is_active = FALSE, !.is_available = FALSE]
    ELSE [r EXCEPT !.is_active = FALSE]

\* An UPDATE that flips the flag instead of setting it.
RestoreRowToggle(tbl, r) == [r EXCEPT !.is_active = ~@]

\* UPDATE <tbl> SET is_active = true
RestoreRow(tbl, r) == [r EXCEPT !.is_active = TRUE]

\* rows of feature_deactivated_items WHERE company_id = .. AND feature_key = ..
\* AND table_name = ..
SnapRows(rows, t, key, tbl) ==
    {e \in rows : e.company_id = t /\ e.feature_key = key /\ e.table_name = tbl}

\* The subquery with table_name compared to the feature key.
SnapshotIdsByKey(rows, t, key, tbl) == {e.item_id : e \in SnapRows(rows, t, key, key)}

\* SELECT item_id FROM feature_deactivated_items WHERE ...
SnapshotIds(rows, t, key, tbl) == {e.item_id : e \in SnapRows(rows, t, key, tbl)}

\* A restore that forgets to clean up.
DeleteNothing(rows, t, key, tbl) == {}

\* DELETE FROM feature_deactivated_items WHERE ...: the rows it deletes.
DeleteTargets(rows, t, key, tbl) == SnapRows(rows, t, key, tbl)

\* The UPDATE without its WHERE clause.
RestoreTargetsUnscoped(R, tbl, S) == {id \in ItemIds : R[tbl][id].exists}

\* An UPDATE that gives up when a snapshotted id has no row any more.
RestoreTargetsAllOrNone(R, tbl, S) ==
    IF \A id \in S : id \in ItemIds /\ R[tbl][id].exists THEN S ELSE {}

\* UPDATE <tbl> ... WHERE id IN (SELECT item_id ...): the rows it matches.
RestoreTargets(R, tbl, S) == {id \in ItemIds : R[tbl][id].exists /\ id \in S}

(* ----------------------- transaction plumbing -------------------------- *)
Rows == DOMAIN cf

\* What the transaction on row k sees of feature_deactivated_items.
Visible(k) == (snap \cup tx[k].ins) \ tx[k].del

\* A company_features row without its row lock.
RowNeverLocked(k) == FALSE

\* The UPDATE of a company_features row locks it until the transaction that
\* runs the trigger ends; another UPDATE or DELETE of the row waits.
RowLocked(k) == tx[k].pc # "idle"

\* A target row updated by an open transaction is locked until it ends.
Locked(tbl, id) ==
    \E k \in Rows : tx[k].pc # "idle" /\ tx[k].tbl = tbl /\ id \in DOMAIN tx[k].upd

\* The owners' writes are drawn from the collections that the rows of
\* company_features in play cascade to; the other collections keep the data
\* they start with.
WritableTables == {RuleTable(KeyOf(k[2])) : k \in Rows} \ {""}

ApplyUpd(R, tbl, upd) ==
    IF DOMAIN upd = {} THEN R
    ELSE [R EXCEPT ![tbl] = [id \in ItemIds |->
                                IF id \in DOMAIN upd THEN upd[id] ELSE @[id]]]

Init ==
    /\ \E k \in Tenants \X FeatureIds, v \in FlagValues \cup {Absent} :
          /\ cf = [x \in {k} |-> v]
          /\ tx = [x \in {k} |-> IdleTx]
          /\ hist = [x \in {k} |-> NoHist]
    /\ recs = [tbl \in TableNames |-> [id \in ItemIds |-> NewRecord(tbl, id)]]
    /\ snap = {}
    /\ clock = 0
    /\ nwrites = 0
    /\ handler = IdleHandler
    /\ response = NoResponse

(* ------------------------ bookkeeping (history) ------------------------ *)
\* hist[k] follows one deactivate -> restore cycle of row k:
\*   phase        none, deactivating, off, reactivating, restored
\*   pre          ids of the tenant's active records when the deactivating
\*                transaction started; preAvail: those also is_available
\*   preSnapEmpty the tenant's snapshot for the rule was empty at that time
\*   clean        no owner wrote a record of the tenant in the rule's table
\*                since the deactivating transaction started
\*   forced       ids whose is_active the deactivation of the cycle cleared
\*   userOff      ids whose latest owner write set is_active to false and
\*                was made while the feature was off and no transition of
\*                the row was in progress
HistBegin(h, t, key, tbl, br, cascade) ==
    IF cascade /\ br = "deactivate"
    THEN [phase |-> "deactivating",
          pre |-> SelectActive(recs, t, tbl),
          preAvail |-> IF tbl = "delivery_drivers"
                       THEN {id \in SelectActive(recs, t, tbl) :
                                recs[tbl][id].is_available}
                       ELSE {},
          preSnapEmpty |-> SnapRows(snap, t, key, tbl) = {},
          clean |-> TRUE, forced |-> {}, userOff |-> {}]
    ELSE IF cascade /\ br = "reactivate" /\ h.phase = "off"
    THEN [h EXCEPT !.phase = "reactivating"]
    ELSE ResetCycle(h)

HistOnWrite(h, id, kind) ==
    IF h.phase = "none" THEN h
    ELSE [h EXCEPT !.clean = FALSE,
                   !.phase = IF @ = "restored" THEN "none" ELSE @,
                   !.userOff = IF h.phase = "off"
                               THEN (IF kind = "off" THEN @ \cup {id}
                                     ELSE IF kind \in {"on", "delete"} THEN @ \ {id}
                                     ELSE @)
                               ELSE @ \ {id}]

HistAfterWrite(tbl, id, kind) ==
    [k \in Rows |->
        IF RuleTable(KeyOf(k[2])) = tbl /\ OwnerOf(id) = k[1]
        THEN HistOnWrite(hist[k], id, kind) ELSE hist[k]]

(* ------------------------------ actions -------------------------------- *)
\* UPDATE company_features SET is_active = new WHERE (company, feature) = k.
\* The row is locked, the trigger's WHEN clause is evaluated and the function
\* starts: it resolves the key and picks its branch.  v_company_id is never
\* NULL here (every row of the model has a company).
UpdateFlag(k, new) ==
    LET t == k[1]
        old == cf[k]
        key == KeyOf(k[2])
        br == IF TriggerWhen(old, new) /\ key # NoKey
              THEN Branch("UPDATE", old, new) ELSE "none"
        cascade == br # "none" /\ HasRule(key)
        tbl == IF cascade THEN RuleTable(key) ELSE ""
        deact == cascade /\ br = "deactivate"
    IN  /\ cf[k] # Absent
        /\ ~RowLocked(k)
        /\ deact => clock < MaxClock
        /\ clock' = IF deact THEN clock + 1 ELSE clock
        /\ tx' = [tx EXCEPT ![k] =
                    [IdleTx EXCEPT !.pc = IF cascade THEN "stmt1" ELSE "done",
                                   !.old = old, !.new = new, !.branch = br,
                                   !.key = key, !.tbl = tbl,
                                   !.now = IF deact THEN clock + 1 ELSE 0]]
        /\ hist' = [hist EXCEPT ![k] = HistBegin(@, t, key, tbl, br, cascade)]
        /\ UNCHANGED <<cf, recs, snap, nwrites, handler, response>>

\* First statement of the branch: the INSERT ... SELECT ... ON CONFLICT DO
\* NOTHING of a deactivation, the UPDATE ... WHERE id IN (...) of a restore.
HandlerStmt1(k) ==
    LET x == tx[k]
        t == k[1]
        found == SelectActive(recs, t, x.tbl)
        rows == {SnapRow(t, x.key, x.tbl, id, x.now) : id \in found}
        S == SnapshotIds(Visible(k), t, x.key, x.tbl)
        targets == RestoreTargets(recs, x.tbl, S)
    IN  /\ x.pc = "stmt1"
        /\ \A id \in targets : x.branch = "reactivate" => ~Locked(x.tbl, id)
        /\ tx' = [tx EXCEPT ![k] =
                    IF x.branch = "deactivate"
                    THEN [x EXCEPT !.pc = "stmt2", !.found = found,
                                   !.ins = InsertOnConflictDoNothing(Visible(k), rows)]
                    ELSE [x EXCEPT !.pc = "stmt2",
                                   !.upd = [id \in targets |->
                                              RestoreRow(x.tbl, recs[x.tbl][id])]]]
        /\ UNCHANGED <<cf, recs, snap, clock, nwrites, hist, handler, response>>

\* Second statement: the UPDATE ... WHERE company_id = .. AND is_active = true
\* of a deactivation, the DELETE FROM feature_deactivated_items of a restore.
HandlerStmt2(k) ==
    LET x == tx[k]
        t == k[1]
        targets == SelectActive(recs, t, x.tbl)
    IN  /\ x.pc = "stmt2"
        /\ \A id \in targets : x.branch = "deactivate" => ~Locked(x.tbl, id)
        /\ tx' = [tx EXCEPT ![k] =
                    IF x.branch = "deactivate"
                    THEN [x EXCEPT !.pc = "done",
                                   !.upd = [id \in targets |->
                                              DeactivateRow(x.tbl, recs[x.tbl][id])]]
                    ELSE [x EXCEPT !.pc = "done",
                                   !.del = DeleteTargets(Visible(k), t, x.key,
                                                        x.tbl)]]
        /\ UNCHANGED <<cf, recs, snap, clock, nwrites, hist, handler, response>>

\* RETURN COALESCE(NEW, OLD); the statement ends and the transaction commits:
\* the flag and every write of the function become visible together.
Commit(k) ==
    LET x == tx[k]
    IN  /\ x.pc = "done"
        /\ cf' = [cf EXCEPT ![k] = x.new]
        /\ snap' = (snap \cup x.ins) \ x.del
        /\ recs' = ApplyUpd(recs, x.tbl, x.upd)
        /\ tx' = [tx EXCEPT ![k] = IdleTx]
        /\ hist' = [hist EXCEPT ![k] =
                      IF x.tbl = "" THEN @
                      ELSE IF x.branch = "deactivate"
                      THEN [@ EXCEPT !.phase = "off", !.forced = DOMAIN x.upd]
                      ELSE IF @.phase = "reactivating"
                      THEN [@ EXCEPT !.phase = "restored"]
                      ELSE ResetCycle(@)]
        /\ UNCHANGED <<clock, nwrites, handler, response>>

\* The transaction fails (connection loss, serialization conflict, error in
\* a statement): nothing it wrote is kept.
Rollback(k) ==
    /\ tx[k].pc # "idle"
    /\ tx' = [tx EXCEPT ![k] = IdleTx]
    /\ hist' = [hist EXCEPT ![k] =
                  IF @.phase = "reactivating" THEN [@ EXCEPT !.phase = "off"]
                  ELSE IF @.phase = "deactivating"
                  THEN ResetCycle(@)
                  ELSE @]
    /\ UNCHANGED <<cf, recs, snap, clock, nwrites, handler, response>>

\* INSERT INTO company_features: the trigger is AFTER UPDATE only.
InsertFlag(k, v) ==
    /\ cf[k] = Absent
    /\ cf' = [cf EXCEPT ![k] = v]
    /\ hist' = [hist EXCEPT ![k] = ResetCycle(@)]
    /\ UNCHANGED <<recs, snap, tx, clock, nwrites, handler, response>>

\* A DELETE that also removes the snapshot entries of the row's feature.
DeleteFlagPurging(k) ==
    /\ cf[k] # Absent
    /\ ~RowLocked(k)
    /\ cf' = [cf EXCEPT ![k] = Absent]
    /\ snap' = {e \in snap : ~(e.company_id = k[1] /\ e.feature_key = KeyOf(k[2]))}
    /\ hist' = [hist EXCEPT ![k] = ResetCycle(@)]
    /\ UNCHANGED <<recs, tx, clock, nwrites, handler, response>>

\* DELETE FROM company_features: no trigger either.
DeleteFlag(k) ==
    /\ cf[k] # Absent
    /\ ~RowLocked(k)
    /\ cf' = [cf EXCEPT ![k] = Absent]
    /\ hist' = [hist EXCEPT ![k] = ResetCycle(@)]
    /\ UNCHANGED <<recs, snap, tx, clock, nwrites, handler, response>>

\* The owning subsystem activates or deactivates one of its records.
UserSetActive(tbl, id, b) ==
    /\ nwrites < MaxUserWrites
    /\ tbl \in WritableTables
    /\ recs[tbl][id].exists
    /\ recs[tbl][id].is_active # b
    /\ ~Locked(tbl, id)
    /\ recs' = [recs EXCEPT ![tbl][id].is_active = b]
    /\ nwrites' = nwrites + 1
    /\ hist' = HistAfterWrite(tbl, id, IF b THEN "on" ELSE "off")
    /\ UNCHANGED <<cf, snap, tx, clock, handler, response>>

\* A delivery driver goes on or off duty.
UserSetAvailable(id, b) ==
    /\ nwrites < MaxUserWrites
    /\ "delivery_drivers" \in WritableTables
    /\ recs["delivery_drivers"][id].exists
    /\ recs["delivery_drivers"][id].is_available # b
    /\ ~Locked("delivery_drivers", id)
    /\ recs' = [recs EXCEPT !["delivery_drivers"][id].is_available = b]
    /\ nwrites' = nwrites + 1
    /\ hist' = HistAfterWrite("delivery_drivers", id, "avail")
    /\ UNCHANGED <<cf, snap, tx, clock, handler, response>>

\* The owning subsystem deletes a record; feature_deactivated_items.item_id
\* has no foreign key, so snapshot rows stay.
UserDelete(tbl, id) ==
    /\ nwrites < MaxUserWrites
    /\ tbl \in WritableTables
    /\ recs[tbl][id].exists
    /\ ~Locked(tbl, id)
    /\ recs' = [recs EXCEPT ![tbl][id].exists = FALSE, ![tbl][id].is_active = FALSE]
    /\ nwrites' = nwrites + 1
    /\ hist' = HistAfterWrite(tbl, id, "delete")
    /\ UNCHANGED <<cf, snap, tx, clock, handler, response>>

Next ==
    \/ \E k \in Rows, v \in FlagValues : UpdateFlag(k, v)
    \/ \E k \in Rows : HandlerStmt1(k)
    \/ \E k \in Rows : HandlerStmt2(k)
    \/ \E k \in Rows : Commit(k)
    \/ \E k \in Rows : Rollback(k)
    \/ \E k \in Rows, v \in FlagValues : InsertFlag(k, v)
    \/ \E k \in Rows : DeleteFlag(k)
    \/ \E tbl \in TableNames, id \in ItemIds, b \in BOOLEAN : UserSetActive(tbl, id, b)
    \/ \E id \in ItemIds, b \in BOOLEAN : UserSetAvailable(id, b)
    \/ \E tbl \in TableNames, id \in ItemIds : UserDelete(tbl, id)

Spec == Init /\ [][Next]_vars

\* The same system when the company_features row is there from the start and
\* is only ever updated: no INSERT or DELETE of the row.
InitPresent == Init /\ \A k \in Rows : cf[k] # Absent

NextUpdates ==
    \/ \E k \in Rows, v \in FlagValues : UpdateFlag(k, v)
    \/ \E k \in Rows : HandlerStmt1(k)
    \/ \E k \in Rows : HandlerStmt2(k)
    \/ \E k \in Rows : Commit(k)
    \/ \E k \in Rows : Rollback(k)
    \/ \E tbl \in TableNames, id \in ItemIds, b \in BOOLEAN : UserSetActive(tbl, id, b)
    \/ \E id \in ItemIds, b \in BOOLEAN : UserSetAvailable(id, b)
    \/ \E tbl \in TableNames, id \in ItemIds : UserDelete(tbl, id)

SpecUpdates == InitPresent /\ [][NextUpdates]_vars

\* Two company_features rows whose transitions run side by side, with nobody
\* else writing: a row of the first company and any other row (another
\* feature of that company, or any feature of another company).
InitPair ==
    /\ \E k1 \in {1} \X FeatureIds, k2 \in Tenants \X FeatureIds,
          v1 \in FlagValues, v2 \in FlagValues :
          /\ k1 # k2
          /\ cf = [x \in {k1, k2} |-> IF x = k1 THEN v1 ELSE v2]
          /\ tx = [x \in {k1, k2} |-> IdleTx]
          /\ hist = [x \in {k1, k2} |-> NoHist]
    /\ recs = [tbl \in TableNames |-> [id \in ItemIds |-> NewRecord(tbl, id)]]
    /\ snap = {}
    /\ clock = 0
    /\ nwrites = 0
    /\ handler = IdleHandler
    /\ response = NoResponse

NextPair ==
    \/ \E k \in Rows, v \in FlagValues : UpdateFlag(k, v)
    \/ \E k \in Rows : HandlerStmt1(k)
    \/ \E k \in Rows : HandlerStmt2(k)
    \/ \E k \in Rows : Commit(k)
    \/ \E k \in Rows : Rollback(k)

SpecPair == InitPair /\ [][NextPair]_vars

(* ---------------------- get-store-setup-status -------------------------- *)
\* Texts that the function trims are sequences of characters; the columns it
\* only tests for truthiness are strings.  JsNull is null or undefined.
Chars == {" ", "a"}
Texts == UNION {[1..n -> Chars] : n \in 0..MaxTextLen}
NullText == <<JsNull>>
ColumnValues == {JsNull, "", "x"}
Gateways == {JsNull, "", "mercadopago", "picpay", "pagseguro"}
Methods == {"OPTIONS", "POST"}

RECURSIVE TrimStart(_)
TrimStart(s) == IF s # <<>> /\ Head(s) = " " THEN TrimStart(Tail(s)) ELSE s
RECURSIVE TrimEnd(_)
TrimEnd(s) ==
    IF s # <<>> /\ s[Len(s)] = " " THEN TrimEnd(SubSeq(s, 1, Len(s) - 1)) ELSE s
\* String.prototype.trim
Trim(s) == TrimEnd(TrimStart(s))

\* !v for a string column and for a text
Falsy(v) == v = JsNull \/ v = ""
FalsyText(s) == s = NullText \/ s = <<>>

\* typeof body?.slug === "string" ? body.slug.trim() : ""
SlugOf(body) == IF body = NullText THEN <<>> ELSE Trim(body)

\* The contents of companies that a request for a slug may meet: no row, or
\* one row, with that slug or another one, approved or not.
CompaniesTables(slug) ==
    {{}} \cup
    {{c} : c \in
        [slug : {slug, <<"a">> \o slug}, status : {"approved", "pending"},
         name : Texts \cup {NullText},
         logo_url : ColumnValues, cover_url : ColumnValues,
         niche : ColumnValues, phone : ColumnValues, email : ColumnValues,
         pix_key : ColumnValues]}

\* rows of company_payment_settings (the selected columns)
PaymentSettings ==
    [mercadopago_enabled : FlagValues, mercadopago_verified : FlagValues,
     picpay_enabled : FlagValues, picpay_verified : FlagValues,
     active_payment_gateway : Gateways]

\* .from("companies").eq("slug", slug).eq("status", "approved")
SelectApproved(table, slug) ==
    {c \in table : c.slug = slug /\ c.status = "approved"}

\* The six checks of the company row, in order.
MissingFields(c) ==
    (IF FalsyText(c.name) \/ FalsyText(Trim(c.name)) THEN <<"name">> ELSE <<>>)
    \o (IF Falsy(c.logo_url) THEN <<"logo">> ELSE <<>>)
    \o (IF Falsy(c.cover_url) THEN <<"cover">> ELSE <<>>)
    \o (IF Falsy(c.niche) THEN <<"niche">> ELSE <<>>)
    \o (IF Falsy(c.phone) THEN <<"phone">> ELSE <<>>)
    \o (IF Falsy(c.email) THEN <<"email">> ELSE <<>>)

\* Online payment counted as configured when any gateway is enabled and
\* verified, whichever is the active one.
OnlinePaymentOkAnyGateway(data) ==
    \E r \in data :
        \/ r.mercadopago_enabled = SqlTrue /\ r.mercadopago_verified = SqlTrue
        \/ r.picpay_enabled = SqlTrue /\ r.picpay_verified = SqlTrue

\* onlinePaymentOk; data is what maybeSingle() returned: no row or one row
\* (paymentSettings?.x of no row is undefined).
OnlinePaymentOk(data) ==
    LET gw == IF data = {} THEN JsNull
              ELSE (CHOOSE r \in data : TRUE).active_payment_gateway
        activeGateway == IF Falsy(gw) THEN "mercadopago" ELSE gw
    IN  IF activeGateway = "mercadopago"
        THEN \E r \in data : r.mercadopago_enabled = SqlTrue
                              /\ r.mercadopago_verified = SqlTrue
        ELSE IF activeGateway = "picpay"
        THEN \E r \in data : r.picpay_enabled = SqlTrue
                              /\ r.picpay_verified = SqlTrue
        ELSE FALSE

ErrorResponse(status, message) ==
    [kind |-> "error", status |-> status, ok |-> FALSE, error |-> message]

cascadeVars == <<cf, recs, snap, tx, clock, nwrites, hist>>

\* The request arrives: OPTIONS is answered at once, otherwise the slug is
\* taken from the body.
Receive(method, body) ==
    /\ handler.pc = "idle"
    /\ IF method = "OPTIONS"
       THEN /\ response' = [kind |-> "options", status |-> 200]
            /\ handler' = [handler EXCEPT !.pc = "done"]
       ELSE IF SlugOf(body) = <<>>
       THEN /\ response' = ErrorResponse(400, "slug is required")
            /\ handler' = [handler EXCEPT !.pc = "done"]
       ELSE /\ response' = response
            /\ handler' = [handler EXCEPT !.pc = "company", !.slug = SlugOf(body)]
    /\ UNCHANGED cascadeVars

\* The companies query returns; the six fields are checked.
LookupCompany(table, failed) ==
    LET found == SelectApproved(table, handler.slug)
    IN  /\ handler.pc = "company"
        /\ IF failed \/ Cardinality(found) > 1
           THEN /\ response' = ErrorResponse(500, "query error")
                /\ handler' = [handler EXCEPT !.pc = "done"]
           ELSE IF found = {}
           THEN /\ response' = ErrorResponse(404, "Company not found")
                /\ handler' = [handler EXCEPT !.pc = "done"]
           ELSE LET company == CHOOSE c \in found : TRUE
                IN  /\ response' = response
                    /\ handler' = [handler EXCEPT
                                     !.pc = "payment",
                                     !.missing = MissingFields(company),
                                     !.pix_key = company.pix_key]
        /\ UNCHANGED cascadeVars

\* The company_payment_settings query returns; the response is sent.
ReadPaymentSettings(data, failed) ==
    LET pixOk == ~Falsy(handler.pix_key)
        paymentOk == pixOk \/ OnlinePaymentOk(data)
        missing == IF failed \/ ~paymentOk
                   THEN Append(handler.missing, "payment")
                   ELSE handler.missing
    IN  /\ handler.pc = "payment"
        /\ failed => data = {}
        /\ response' = [kind |-> "status", status |-> 200, ok |-> TRUE,
                         blocked |-> Len(missing) > 0, missing |-> missing]
        /\ handler' = [handler EXCEPT !.pc = "done", !.missing = missing,
                                       !.payment = [error |-> failed, data |-> data]]
        /\ UNCHANGED cascadeVars

InitSetup ==
    /\ cf = [x \in {} |-> Absent]
    /\ tx = [x \in {} |-> IdleTx]
    /\ hist = [x \in {} |-> NoHist]
    /\ recs = [tbl \in TableNames |-> [id \in ItemIds |-> NewRecord(tbl, id)]]
    /\ snap = {}
    /\ clock = 0
    /\ nwrites = 0
    /\ handler = IdleHandler
    /\ response = NoResponse

NextSetup ==
    \/ \E method \in Methods, body \in Texts \cup {NullText} : Receive(method, body)
    \/ /\ handler.pc = "company"
       /\ \E table \in CompaniesTables(handler.slug), failed \in BOOLEAN :
             LookupCompany(table, failed)
    \/ /\ handler.pc = "payment"
       /\ \E data \in {{}} \cup {{row} : row \in PaymentSettings},
             failed \in BOOLEAN : ReadPaymentSettings(data, failed)

SpecSetup == InitSetup /\ [][NextSetup]_vars

TypeOK ==
    /\ \A k \in Rows : cf[k] \in FlagValues \cup {Absent}
    /\ clock \in 0..MaxClock
    /\ nwrites \in 0..MaxUserWrites

(* ============================ properties =============================== *)
KnownKeys == {"coupons", "promotions", "drivers", "tables"}
TenantOf(k) == k[1]
KeyOfRow(k) == KeyOf(k[2])
TableOfRow(k) ==
    CASE KeyOfRow(k) = "coupons" -> "coupons"
      [] KeyOfRow(k) = "promotions" -> "promotions"
      [] KeyOfRow(k) = "drivers" -> "delivery_drivers"
      [] KeyOfRow(k) = "tables" -> "tables"
      [] OTHER -> "coupons"
RuleRows == {k \in Rows : KeyOfRow(k) \in KnownKeys}

\* Snapshot rows of the row's (tenant, feature) and rule collection.
SnapOfRow(rows, k) ==
    {e \in rows : e.company_id = TenantOf(k) /\ e.feature_key = KeyOfRow(k)
                  /\ e.table_name = TableOfRow(k)}
\* Snapshot rows of the row's (tenant, feature), whatever the collection.
SnapOfPair(rows, k) ==
    {e \in rows : e.company_id = TenantOf(k) /\ e.feature_key = KeyOfRow(k)}
SnapIdsOfRow(rows, k) == {e.item_id : e \in SnapOfRow(rows, k)}

IsActive(R, k, id) == R[TableOfRow(k)][id].exists /\ R[TableOfRow(k)][id].is_active

IsToggle(old, new) ==
    (old = SqlTrue /\ new = SqlFalse) \/ (old = SqlFalse /\ new = SqlTrue)

\* The step in which the transaction on row k commits a change of the flag.
CommitStep(k) ==
    /\ tx[k].pc = "done" /\ tx'[k].pc = "idle"
    /\ tx[k].old # tx[k].new /\ cf'[k] = tx[k].new
DeactCommit(k) == CommitStep(k) /\ k \in RuleRows /\ tx[k].old = SqlTrue
                  /\ tx[k].new = SqlFalse
ReactCommit(k) == CommitStep(k) /\ k \in RuleRows /\ tx[k].old = SqlFalse
                  /\ tx[k].new = SqlTrue

\* A deactivation and the following restoration of row k have both committed,
\* nobody wrote the tenant's records of the collection since the deactivation
\* started, and the snapshot was empty then.
RoundTripDone(k) ==
    hist[k].phase = "restored" /\ hist[k].clean /\ hist[k].preSnapEmpty

\* C1: round trip.  With an empty snapshot and N active records, a
\* true->false transition followed by a false->true transition with no other
\* write in between leaves the N records active and no snapshot row for
\* (tenant, feature, collection).
C1_RoundTrip ==
    \A k \in Rows : RoundTripDone(k) =>
        /\ \A id \in hist[k].pre : IsActive(recs, k, id)
        /\ SnapOfRow(snap, k) = {}

C1_Witness ==
    \E k \in RuleRows : RoundTripDone(k) /\ Cardinality(hist[k].pre) >= 2

\* C2 (as claimed): after owner writes made while the feature was off (none
\* during the deactivating transaction itself, which cleared exactly the
\* records active when it started), the restoration activates precisely the
\* records the deactivation force-deactivated, and none that its owner
\* deactivated while the feature was off.
C2_AsClaimed ==
    [][\A k \in Rows :
        (ReactCommit(k) /\ hist[k].phase = "reactivating"
            /\ hist[k].forced = hist[k].pre) =>
            LET activated == {id \in ItemIds :
                                ~IsActive(recs, k, id) /\ IsActive(recs', k, id)}
            IN  /\ activated \subseteq hist[k].forced
                /\ \A id \in hist[k].forced :
                      recs[TableOfRow(k)][id].exists => IsActive(recs', k, id)
                /\ activated \cap hist[k].userOff = {}]_vars

\* C3: the restoration changes only records whose id is in the snapshot of
\* (tenant, feature, collection): every other record, active or not, keeps
\* its value; afterwards no snapshot row of the tuple remains.
C3_RestoreFrame ==
    [][\A k \in Rows : ReactCommit(k) =>
        /\ \A tbl \in TableNames, id \in ItemIds :
              (tbl # TableOfRow(k) \/ id \notin SnapIdsOfRow(snap, k))
                  => recs'[tbl][id] = recs[tbl][id]
        /\ SnapOfRow(snap', k) = {}]_vars

\* A restoration has run (not yet committed) while a record of the tenant
\* outside the snapshot is active and another one outside it is inactive.
C3_Witness ==
    \E k \in RuleRows :
        /\ tx[k].pc = "done" /\ tx[k].old = SqlFalse /\ tx[k].new = SqlTrue
        /\ DOMAIN tx[k].upd # {}
        /\ \E id \in ItemIds \ SnapIdsOfRow(snap, k) :
              OwnerOf(id) = TenantOf(k) /\ IsActive(recs, k, id)
        /\ \E id \in ItemIds \ SnapIdsOfRow(snap, k) : ~IsActive(recs, k, id)

\* C4 (as claimed): a driver with is_active and is_available both true before
\* the deactivation has both true after the round trip.
C4_AsClaimed ==
    \A k \in Rows :
        (hist[k].phase = "restored" /\ hist[k].clean) =>
            \A id \in hist[k].preAvail :
                /\ recs["delivery_drivers"][id].is_active
                /\ recs["delivery_drivers"][id].is_available

\* C5 (as claimed): every record whose active flag a deactivation clears has
\* a snapshot entry when the deactivation commits, and the entries of
\* (tenant, feature, collection) stay until a restoration commits.
C5_AsClaimed ==
    [][\A k \in Rows :
        /\ DeactCommit(k) => DOMAIN tx[k].upd \subseteq SnapIdsOfRow(snap', k)
        /\ ~ReactCommit(k) => SnapOfRow(snap, k) \subseteq snap']_vars

SnapUnique(rows) ==
    \A e1 \in rows, e2 \in rows : SnapKey(e1) = SnapKey(e2) => e1 = e2

\* C6: at most one snapshot entry per (tenant, feature key, collection,
\* record id), in the table and in what any transaction sees of it; the
\* insert of a deactivation keeps every existing entry as it is and adds a
\* row exactly for the records found that had none.
C6_UniqueIdempotent ==
    /\ [](SnapUnique(snap) /\ \A k \in Rows : SnapUnique(Visible(k)))
    /\ [][\A k \in Rows :
            (tx[k].pc = "stmt1" /\ tx'[k].pc = "stmt2"
                /\ tx[k].branch = "deactivate") =>
                LET before == (snap \cup tx[k].ins) \ tx[k].del
                    after == (snap' \cup tx'[k].ins) \ tx'[k].del
                IN  /\ before \subseteq after
                    /\ SnapIdsOfRow(after, k) =
                          SnapIdsOfRow(before, k) \cup tx'[k].found
                    /\ Cardinality(SnapOfRow(after, k)) =
                          Cardinality(SnapIdsOfRow(after, k))]_vars

\* The insert of a deactivation has met an entry of an earlier deactivation.
C6_Witness ==
    \E k \in RuleRows :
        /\ tx[k].pc \in {"stmt2", "done"} /\ tx[k].branch = "deactivate"
        /\ \E e \in SnapOfRow(snap, k) :
              e.item_id \in tx[k].found /\ e.deactivated_at # tx[k].now

\* C7 (as claimed), under SpecUpdates (flag updates and owner writes only):
\* whenever the feature is active and no transition of the row is in
\* progress, the snapshot of (tenant, feature) is empty.
C7_AsClaimed ==
    \A k \in RuleRows :
        (cf[k] = SqlTrue /\ tx[k].pc = "idle") => SnapOfPair(snap, k) = {}

\* C7 (amended): a committed false->true transition leaves no snapshot row of
\* (tenant, feature), and a row of (tenant, feature) appears only when a
\* true->false transition of it commits; so the snapshot of (tenant, feature)
\* is empty from a completed false->true transition to the next completed
\* true->false transition.
C7_Amended ==
    [][\A k \in Rows :
        /\ ReactCommit(k) => SnapOfPair(snap', k) = {}
        /\ ~DeactCommit(k) => SnapOfPair(snap', k) \subseteq SnapOfPair(snap, k)]_vars

\* A restoration that had rows to consume has committed: the feature is
\* active and its snapshot is empty.
C7_Witness ==
    \E k \in RuleRows :
        /\ cf[k] = SqlTrue /\ tx[k].pc = "idle"
        /\ hist[k].phase = "restored" /\ hist[k].pre # {}
        /\ SnapOfPair(snap, k) = {}

\* C8: a write that leaves the flag unchanged, or changes it otherwise than
\* true->false or false->true, inserts and deletes no snapshot entry and
\* modifies no target record.
C8_Guard ==
    /\ [](\A k \in Rows :
            (tx[k].pc # "idle" /\ ~IsToggle(tx[k].old, tx[k].new)) =>
                /\ tx[k].pc = "done"
                /\ tx[k].ins = {} /\ tx[k].del = {} /\ DOMAIN tx[k].upd = {})
    /\ [][\A k \in Rows :
            (tx[k].pc # "idle" /\ ~IsToggle(tx[k].old, tx[k].new)
                /\ tx'[k].pc = "idle") => (snap' = snap /\ recs' = recs)]_vars

\* The function has run for an unset -> false change of a feature with a
\* rule while the tenant has active records.
C8_Witness ==
    \E k \in RuleRows :
        /\ tx[k].pc = "done" /\ tx[k].old = SqlNull /\ tx[k].new = SqlFalse
        /\ \E id \in ItemIds : OwnerOf(id) = TenantOf(k) /\ IsActive(recs, k, id)

\* C9: a true->false or false->true transition of a feature without a
\* cascade rule (unknown key, or an id that resolves to no key) succeeds, the
\* flag takes the new value, and no snapshot entry and no target record
\* changes.
C9_UnknownFeature ==
    /\ [](\A k \in Rows \ RuleRows :
            tx[k].pc # "idle" =>
                /\ tx[k].pc = "done"
                /\ tx[k].ins = {} /\ tx[k].del = {} /\ DOMAIN tx[k].upd = {})
    /\ [][\A k \in Rows \ RuleRows :
            (tx[k].pc = "done" /\ tx'[k].pc = "idle") =>
                /\ snap' = snap /\ recs' = recs
                /\ cf'[k] \in {tx[k].old, tx[k].new}]_vars

C9_Witness ==
    \E k \in Rows \ RuleRows :
        /\ KeyOfRow(k) # NoKey
        /\ tx[k].pc = "done" /\ tx[k].old = SqlTrue /\ tx[k].new = SqlFalse
        /\ \E tbl \in TableNames, id \in ItemIds : recs[tbl][id].is_active

\* C10 (as claimed): the writes of one transition are all-or-nothing: they
\* are not visible before it commits, a failed transition leaves the
\* committed state as it was, and when a deactivation commits every record it
\* found active is snapshotted and inactive, every record it deactivated is
\* snapshotted.
C10_AsClaimed ==
    [][\A k \in Rows :
        /\ (tx'[k] # tx[k] /\ tx'[k].pc # "idle")
              => (snap' = snap /\ recs' = recs /\ cf' = cf)
        /\ (tx[k].pc # "idle" /\ tx'[k].pc = "idle" /\ ~CommitStep(k))
              => (snap' = snap /\ recs' = recs)
        /\ DeactCommit(k) =>
              \A id \in tx[k].found \cup DOMAIN tx[k].upd :
                  id \in SnapIdsOfRow(snap', k) /\ ~IsActive(recs', k, id)
        /\ ReactCommit(k) =>
              /\ \A id \in SnapIdsOfRow(snap, k) :
                    recs[TableOfRow(k)][id].exists => IsActive(recs', k, id)
              /\ SnapOfRow(snap', k) = {}]_vars

\* C11: transitions of one (tenant, feature) row are serial.  While a
\* transition of the row is open no other transition of it starts or takes a
\* step: its OLD and NEW values, its branch and what it has written so far
\* stay, and its steps come in order.  The OLD value a transition works with
\* is the value committed when it starts, and the flag changes only when the
\* open transition commits, to that transition's NEW value: the committed
\* transitions of the row form one chain, each starting from the result of
\* the one before.
C11_Linearizable ==
    [][\A k \in Rows :
        /\ (tx[k].pc # "idle" /\ tx'[k].pc # "idle") =>
              /\ tx'[k].old = tx[k].old /\ tx'[k].new = tx[k].new
              /\ tx'[k].branch = tx[k].branch /\ tx'[k].now = tx[k].now
              /\ tx[k].ins \subseteq tx'[k].ins
              /\ <<tx[k].pc, tx'[k].pc>> \in
                    {<<"stmt1", "stmt1">>, <<"stmt1", "stmt2">>,
                     <<"stmt2", "stmt2">>, <<"stmt2", "done">>,
                     <<"done", "done">>}
              /\ tx'[k].pc = tx[k].pc => tx'[k] = tx[k]
              /\ cf'[k] = cf[k]
        /\ (tx[k].pc = "idle" /\ tx'[k].pc # "idle") => tx'[k].old = cf[k]
        /\ cf'[k] # cf[k] =>
              \/ cf[k] = Absent \/ cf'[k] = Absent
              \/ (tx[k].pc = "done" /\ tx'[k].pc = "idle"
                    /\ tx[k].old = cf[k] /\ cf'[k] = tx[k].new)]_vars

\* A restoration that follows a committed deactivation of the same row has
\* restored records and not yet cleared the snapshot: the point where a
\* second toggle of the row would interleave.
C11_Witness ==
    \E k \in RuleRows :
        /\ hist[k].phase = "reactivating" /\ tx[k].pc = "stmt2"
        /\ DOMAIN tx[k].upd # {}

\* The tenant's active records of the row's collection.
ActiveOfRow(R, k) ==
    {id \in ItemIds : OwnerOf(id) = TenantOf(k) /\ IsActive(R, k, id)}

\* C12, under SpecPair (two rows, their transitions interleaved): a step of
\* the transition of row (T,F) changes no record of another tenant or of
\* another collection, no snapshot entry of another tenant or feature key and
\* nothing of the other row; and what a committing transition does to the
\* records and snapshot entries of its own (T,F) is the result of running it
\* alone on the state it commits to, whatever the other row's transition did
\* in between: all of T's active records deactivated and added to the
\* snapshot, or the snapshotted records activated and the snapshot emptied.
C12_Independent ==
    [][\A k \in Rows : tx'[k] # tx[k] =>
        /\ \A k2 \in Rows \ {k} : cf'[k2] = cf[k2] /\ tx'[k2] = tx[k2]
        /\ k \notin RuleRows => (recs' = recs /\ snap' = snap)
        /\ \A tbl \in TableNames, id \in ItemIds :
              (tbl # TableOfRow(k) \/ OwnerOf(id) # TenantOf(k))
                  => recs'[tbl][id] = recs[tbl][id]
        /\ \A e \in snap \cup snap' :
              (e.company_id # TenantOf(k) \/ e.feature_key # KeyOfRow(k))
                  => (e \in snap /\ e \in snap')
        /\ DeactCommit(k) =>
              /\ ActiveOfRow(recs', k) = {}
              /\ SnapIdsOfRow(snap', k) =
                    SnapIdsOfRow(snap, k) \cup ActiveOfRow(recs, k)
        /\ ReactCommit(k) =>
              /\ ActiveOfRow(recs', k) =
                    ActiveOfRow(recs, k) \cup
                    {id \in SnapIdsOfRow(snap, k) : recs[TableOfRow(k)][id].exists}
              /\ SnapOfRow(snap', k) = {}]_vars

\* The deactivations of two rows are both under way, each having found
\* records of its own: same feature for two tenants, or two features.
C12_Witness ==
    \E k1 \in RuleRows, k2 \in RuleRows :
        /\ k1 # k2
        /\ tx[k1].pc = "stmt2" /\ tx[k1].found # {}
        /\ tx[k2].pc = "done" /\ tx[k2].found # {}
        /\ DOMAIN tx[k2].upd # {}

\* C13: running a cascade again on the state it produced changes nothing.
\* A deactivation that starts when none of the tenant's records is active
\* (and nobody writes them meanwhile) adds no snapshot entry and changes no
\* record; a restoration that finds no snapshot entry changes no record; a
\* restoration that finds its snapshotted records already active changes no
\* record's flag; and either restoration leaves no snapshot entry.
C13_RetryIdempotent ==
    [][\A k \in Rows :
        /\ (DeactCommit(k) /\ hist[k].phase = "deactivating" /\ hist[k].clean
                /\ hist[k].pre = {})
              => (snap' = snap /\ recs' = recs)
        /\ (ReactCommit(k) /\ SnapOfRow(snap, k) = {})
              => (recs' = recs /\ snap' = snap)
        /\ (ReactCommit(k)
                /\ \A id \in SnapIdsOfRow(snap, k) :
                      recs[TableOfRow(k)][id].exists
                          => recs[TableOfRow(k)][id].is_active)
              => /\ \A tbl \in TableNames, id \in ItemIds :
                       recs'[tbl][id].is_active = recs[tbl][id].is_active
                 /\ SnapOfRow(snap', k) = {}]_vars

\* A restoration has run on snapshotted records that were all active
\* already: the records restored, the snapshot not yet cleared.
C13_Witness ==
    \E k \in RuleRows :
        /\ tx[k].pc = "done" /\ tx[k].branch = "reactivate"
        /\ DOMAIN tx[k].upd # {}
        /\ \A id \in DOMAIN tx[k].upd : recs[tx[k].tbl][id].is_active
        /\ SnapOfRow(snap, k) # {}

\* C14: no step of a transition creates or deletes a target record or
\* changes its company; it changes nothing but is_active (and is_available
\* for delivery_drivers), and only in the collection of the feature's rule.
\* The set of record ids of every collection is the same before and after.
C14_OnlyActivation ==
    [][\A k \in Rows : (tx'[k] # tx[k] /\ recs' # recs) =>
        /\ {<<tbl, id>> \in TableNames \X ItemIds : recs'[tbl][id].exists} =
              {<<tbl, id>> \in TableNames \X ItemIds : recs[tbl][id].exists}
        /\ \A tbl \in TableNames, id \in ItemIds :
              /\ recs'[tbl][id].company_id = recs[tbl][id].company_id
              /\ DOMAIN recs'[tbl][id] = DOMAIN recs[tbl][id]
              /\ (tbl # "delivery_drivers" /\ tbl = TableOfRow(k) /\ k \in RuleRows)
                    => [recs'[tbl][id] EXCEPT !.is_active = recs[tbl][id].is_active]
                          = recs[tbl][id]
              /\ (tbl = "delivery_drivers" /\ tbl = TableOfRow(k) /\ k \in RuleRows)
                    => [recs'[tbl][id] EXCEPT
                          !.is_active = recs[tbl][id].is_active,
                          !.is_available = recs[tbl][id].is_available]
                          = recs[tbl][id]
              /\ (tbl # TableOfRow(k) \/ k \notin RuleRows)
                    => recs'[tbl][id] = recs[tbl][id]]_vars

\* The deactivation of the drivers feature is about to commit the update of
\* a driver that was active and available, next to a deleted driver.
C14_Witness ==
    \E k \in RuleRows :
        /\ tx[k].pc = "done" /\ tx[k].tbl = "delivery_drivers"
        /\ tx[k].branch = "deactivate"
        /\ \E id \in DOMAIN tx[k].upd :
              recs[tx[k].tbl][id].is_active /\ recs[tx[k].tbl][id].is_available
        /\ \E id \in ItemIds : ~recs[tx[k].tbl][id].exists

\* C15: when a true->false transition commits (no other writer having
\* written the tenant's records of the collection since it started), none
\* of the tenant's records of the rule's collection is active, and the
\* snapshot ids of (tenant, feature, collection) are those of before the
\* transition together with the tenant's records that were active before
\* it, one entry per id.
C15_DeactivatingPost ==
    [][\A k \in Rows :
        (DeactCommit(k) /\ hist[k].phase = "deactivating" /\ hist[k].clean) =>
            /\ ActiveOfRow(recs', k) = {}
            /\ SnapIdsOfRow(snap', k) =
                  SnapIdsOfRow(snap, k) \cup ActiveOfRow(recs, k)
            /\ Cardinality(SnapOfRow(snap', k)) =
                  Cardinality(SnapIdsOfRow(snap, k) \cup ActiveOfRow(recs, k))
            /\ \A id \in ItemIds :
                  OwnerOf(id) # TenantOf(k) =>
                      recs'[TableOfRow(k)][id] = recs[TableOfRow(k)][id]]_vars

\* A deactivation that started with an empty snapshot and several active
\* records of the tenant is about to commit.
C15_Witness ==
    \E k \in RuleRows :
        /\ tx[k].pc = "done" /\ tx[k].branch = "deactivate"
        /\ hist[k].phase = "deactivating" /\ hist[k].clean
        /\ SnapOfRow(snap, k) = {}
        /\ Cardinality(ActiveOfRow(recs, k)) >= 2
        /\ \E id \in ItemIds : OwnerOf(id) # TenantOf(k) /\ IsActive(recs, k, id)

\* C16 (as claimed): when a true->false transition starts while a snapshot
\* entry of (tenant, feature, collection) is already there, and the next
\* false->true transition follows with no other write to the tenant's
\* records in between, then no snapshot entry of (tenant, feature) remains
\* and the tenant's active records are exactly those that were active when
\* that true->false transition started.
C16_AsClaimed ==
    \A k \in Rows :
        (hist[k].phase = "restored" /\ hist[k].clean /\ ~hist[k].preSnapEmpty) =>
            /\ SnapOfPair(snap, k) = {}
            /\ ActiveOfRow(recs, k) = hist[k].pre

\* C17: a step that creates or deletes the company_features row starts no
\* transition and leaves every snapshot entry and every target record as it
\* is (so entries taken before a delete are still there when the row is
\* created again, active or not); a transition, and with it any change of
\* snapshot entries or target records by the handler, starts only from an
\* existing row.
C17_OnlyUpdateCascades ==
    /\ [][\A k \in Rows :
            ((cf[k] = Absent) # (cf'[k] = Absent)) =>
                (snap' = snap /\ recs' = recs /\ tx' = tx
                    /\ tx[k].pc = "idle")]_vars
    /\ [](\A k \in Rows : cf[k] = Absent => tx[k].pc = "idle")

\* The row was deleted after a deactivation had snapshotted records: the
\* entries are there without a row, and the row can be created again.
C17_Witness ==
    \E k \in RuleRows :
        /\ cf[k] = Absent
        /\ SnapOfPair(snap, k) # {}
        /\ \E id \in SnapIdsOfRow(snap, k) : ~IsActive(recs, k, id)

\* C18: a false->true transition whose snapshot lists a record that its
\* owner has deleted commits all the same: every snapshotted record that
\* still exists is active afterwards, no record is created (the deleted one
\* stays deleted), and no snapshot entry of (tenant, feature, collection)
\* remains.
C18_VanishedRecords ==
    [][\A k \in Rows :
        (ReactCommit(k)
            /\ \E id \in SnapIdsOfRow(snap, k) : ~recs[TableOfRow(k)][id].exists) =>
            /\ \A id \in SnapIdsOfRow(snap, k) :
                  recs[TableOfRow(k)][id].exists => IsActive(recs', k, id)
            /\ \A tbl \in TableNames, id \in ItemIds :
                  recs'[tbl][id].exists = recs[tbl][id].exists
            /\ SnapOfRow(snap', k) = {}]_vars

\* A restoration is about to commit: one snapshotted record is gone,
\* another one, inactive until now, is restored.
C18_Witness ==
    \E k \in RuleRows :
        /\ tx[k].pc = "done" /\ tx[k].branch = "reactivate"
        /\ \E id \in SnapIdsOfRow(snap, k) : ~recs[TableOfRow(k)][id].exists
        /\ \E id \in DOMAIN tx[k].upd :
              /\ id \in SnapIdsOfRow(snap, k)
              /\ ~recs[TableOfRow(k)][id].is_active
              /\ tx[k].upd[id].is_active

\* The active gateway of the payment settings read (mercadopago when unset)
\* is mercadopago or picpay and is both enabled and verified.
GatewayConfigured(data) ==
    \E r \in data :
        LET g == IF r.active_payment_gateway \in {JsNull, ""}
                 THEN "mercadopago" ELSE r.active_payment_gateway
        IN  \/ g = "mercadopago" /\ r.mercadopago_enabled = "true"
                                 /\ r.mercadopago_verified = "true"
            \/ g = "picpay" /\ r.picpay_enabled = "true"
                            /\ r.picpay_verified = "true"

InMissing(key) == \E i \in 1..Len(response.missing) : response.missing[i] = key

\* C19, under SpecSetup: in the status response for an approved company
\* found by slug, blocked is true exactly when the missing list is not
\* empty, and the list has 'payment' exactly when the read of the payment
\* settings failed, or the company has no pix_key and the active gateway
\* (mercadopago when unset) is not both enabled and verified; any gateway
\* other than mercadopago and picpay does not count.
C19_SetupStatus ==
    response.kind = "status" =>
        /\ handler.slug # <<>>
        /\ response.blocked <=> (response.missing # <<>>)
        /\ InMissing("payment") <=>
              \/ handler.payment.error
              \/ /\ handler.pix_key \in {JsNull, ""}
                 /\ ~GatewayConfigured(handler.payment.data)

\* The response for a company that has no pix_key and whose active gateway
\* is a third one, while mercadopago is enabled and verified.
C19_Witness ==
    /\ response.kind = "status"
    /\ handler.pix_key = JsNull
    /\ \E r \in handler.payment.data :
          /\ r.active_payment_gateway = "pagseguro"
          /\ r.mercadopago_enabled = "true" /\ r.mercadopago_verified = "true"
    /\ response.blocked /\ response.missing = <<"payment">>

====
